---- MODULE Spec2Model ----
(***************************************************************************)
(* Model of paramico_ssh_shell.py: SSHConnection (connect, reconnect,      *)
(* send_command, disconnect, is_connected), ShellInterface (run_cmd) and   *)
(* parse_cmd_output.                                                       *)
(*                                                                         *)
(* Every public method is one atomic action.  A method is an operator from *)
(* the connection state to the SET of results the method can produce, one  *)
(* result per behaviour of the transport library and the remote host.      *)
(*                                                                         *)
(* Environment (paramiko, not part of the repository):                     *)
(*   - SSHClient() and set_missing_host_key_policy() do not raise;         *)
(*   - SSHClient.connect() and invoke_shell() may raise;                   *)
(*   - Channel.send() raises exactly when the channel's transport is down; *)
(*   - recv_ready(), recv() (no timeout is ever set) and both close()      *)
(*     methods do not raise;                                               *)
(*   - the remote side may drop a session at any time.                     *)
(* Channel data is counted in blocks of at most buffer_size bytes, one     *)
(* recv(buffer_size) call returning one block.                             *)
(***************************************************************************)
EXTENDS Integers, Sequences, FiniteSets, TLC

\* ------------------------------------------------------------------ bounds
MaxSessions == 7      \* client objects ever created in one behaviour
MaxBanner == 2        \* blocks of login banner a new shell channel may hold
MaxChunks == 1        \* blocks of output the remote emits for one command
MaxLate == 1          \* blocks that arrive after the poll loop has exited
MaxRunRetry == 2      \* largest retry_count handed to run_cmd
MaxRetry == 2         \* largest retry_count handed to reconnect directly
MaxLen == 5           \* longest string handed to parse_cmd_output
MaxBytes == 3         \* bytes the remote emits during one send_command
BufferSize == 2       \* buffer_size, in bytes, of the connection that is polled

\* ------------------------------------------------------- program constants
None == 0                     \* the null handle
DefaultRetryCount == 3        \* reconnect(retry_count=3)

VARIABLES
    ssh_client,   \* SSHConnection._ssh_client: None or the id of a client object
    shell,        \* SSHConnection._shell: None or the id of the session the channel belongs to
    nsess,        \* number of client objects created so far (ids are 1..nsess)
    live,         \* ids, among those the handles hold, whose transport is up
    pending,      \* unread blocks buffered in the channel held by shell
    iface,        \* TRUE when a ShellInterface object exists
    log,          \* library calls made by the last public call, in order
    last,         \* the last public call: name, argument, handles before, result
    output,       \* argument of the last parse_cmd_output call
    parsed,       \* its result
    pc,           \* send_command, step by step: "idle", "call", "poll", "done", "raised"
    chan,         \* bytes buffered in the channel, not yet read
    supply,       \* bytes the remote may still emit
    sends,        \* times the command has been written to the channel
    chunks,       \* what each recv() of the poll loop returned, in order
    acc,          \* the local variable output of send_command
    ret           \* the value send_command returned

connVars == <<ssh_client, shell, nsess, live, pending, iface, log, last>>
parseVars == <<output, parsed>>
pollVars == <<pc, chan, supply, sends, chunks, acc, ret>>
vars == <<ssh_client, shell, nsess, live, pending, iface, log, last, output, parsed,
          pc, chan, supply, sends, chunks, acc, ret>>

\* ------------------------------------------------- connection state records
Conn == [ssh_client |-> ssh_client, shell |-> shell, nsess |-> nsess,
         live |-> live, pending |-> pending, log |-> <<>>]

Emit(c, ev, id) == [c EXCEPT !.log = Append(@, [ev |-> ev, id |-> id])]

NoOut == [stale |-> 0, fresh |-> 0]

Returns(c, out) == [c |-> c, err |-> "none", out |-> out]

Raises(c, e) == [c |-> c, err |-> e, out |-> NoOut]

\* variant of is_connected that looks at the client handle alone
is_connected_client_only(c) == c.ssh_client # None

\* is_connected, on a connection record
is_connected(c) == c.ssh_client # None /\ c.shell # None

\* ------------------------------------------------------------- disconnect
\* variant of disconnect that closes the client before the shell
disconnect_client_first(c) ==
    LET c1 == IF c.ssh_client # None
              THEN [Emit(c, "client_close", c.ssh_client) EXCEPT
                        !.ssh_client = None, !.live = {}]
              ELSE c
    IN  IF c1.shell # None
        THEN [Emit(c1, "shell_close", c1.shell) EXCEPT
                  !.shell = None, !.pending = 0]
        ELSE c1

\* if self._shell: close it, clear it; if self._ssh_client: close it, clear it
disconnect(c) ==
    LET c1 == IF c.shell # None
              THEN [Emit(c, "shell_close", c.shell) EXCEPT
                        !.shell = None, !.pending = 0,
                        !.live = @ \cap {c.ssh_client}]
              ELSE c
    IN  IF c1.ssh_client # None
        THEN [Emit(c1, "client_close", c1.ssh_client) EXCEPT
                  !.ssh_client = None, !.live = {}]
        ELSE c1

\* ---------------------------------------------------------- _flush_buffer
\* one recv(buffer_size), and only when there is a shell with data ready
flush_buffer(c) ==
    IF c.shell # None /\ c.pending > 0
    THEN [Emit(c, "recv", c.shell) EXCEPT !.pending = @ - 1]
    ELSE c

\* ---------------------------------------------------------------- connect
\* the body of the try block: the results carry the library's own exception.
\* keep: whether the transport of the client object that is replaced stays up
\* (the library closes it when the dropped object is collected)
connect_from(c, disable_pagination, keep) ==
    LET id == c.nsess + 1
        \* self._ssh_client = paramiko.SSHClient(): the old client is dropped
        c1 == Emit([c EXCEPT !.ssh_client = id, !.nsess = id,
                             !.live = IF keep THEN @ \cap {c.shell} ELSE {}],
                   "new_client", id)
        c2 == Emit(c1, "client_connect", id)
        \* client.connect() succeeded: the transport is up
        c3 == Emit([c2 EXCEPT !.live = @ \cup {id}], "invoke_shell", id)
        \* self._shell = invoke_shell(): the old channel is dropped,
        \* the new one holds b blocks of banner after the sleep
        c4(b) == Emit([c3 EXCEPT !.shell = id, !.pending = b,
                                 !.live = @ \cap {id}], "sleep_connect", 0)
        c5(b) == flush_buffer(c4(b))
        dropped(b) == Emit([c5(b) EXCEPT !.live = @ \ {id}], "send_pagination", id)
        sent(b, e) == Emit([Emit(c5(b), "send_pagination", id) EXCEPT
                                !.pending = @ + e], "sleep_connect", 0)
    IN  {Raises(c2, "SSHException")}
        \cup {Raises(c3, "SSHException")}
        \cup (IF disable_pagination
              THEN {Raises(dropped(b), "OSError") : b \in 0..MaxBanner}
                   \cup {Returns(sent(b, e), NoOut) : b \in 0..MaxBanner, e \in 0..1}
              ELSE {Returns(c5(b), NoOut) : b \in 0..MaxBanner})

connect_body(c, disable_pagination) ==
    connect_from(c, disable_pagination, TRUE) \cup connect_from(c, disable_pagination, FALSE)

\* variant of connect without the except clause
connect_unwrapped(c, disable_pagination) == connect_body(c, disable_pagination)

\* except Exception as e: raise ConnectionError(...)
connect(c, disable_pagination) ==
    { IF r.err = "none" THEN r ELSE Raises(r.c, "ConnectionError")
        : r \in connect_body(c, disable_pagination) }

\* -------------------------------------------------------------- reconnect
RECURSIVE reconnect_loop_short(_, _, _)
\* variant of the loop over range(1, retry_count): one attempt too few
reconnect_loop_short(c, attempt, retry_count) ==
    IF attempt >= retry_count
    THEN {Raises(c, "ConnectionError")}
    ELSE UNION { IF r.err = "none"
                 THEN {Returns(Emit(r.c, "reconnected", attempt), NoOut)}
                 ELSE reconnect_loop_short(
                          Emit(Emit(r.c, "attempt_failed", attempt), "sleep_retry", 0),
                          attempt + 1, retry_count)
                 : r \in connect(disconnect(Emit(c, "attempt", attempt)), FALSE) }

RECURSIVE reconnect_loop_no_disconnect(_, _, _)
\* variant of the loop that connects without disconnecting first
reconnect_loop_no_disconnect(c, attempt, retry_count) ==
    IF attempt > retry_count
    THEN {Raises(c, "ConnectionError")}
    ELSE UNION { IF r.err = "none"
                 THEN {Returns(Emit(r.c, "reconnected", attempt), NoOut)}
                 ELSE reconnect_loop_no_disconnect(
                          Emit(Emit(r.c, "attempt_failed", attempt), "sleep_retry", 0),
                          attempt + 1, retry_count)
                 : r \in connect(Emit(c, "attempt", attempt), FALSE) }

RECURSIVE reconnect_loop(_, _, _)
\* for attempt in range(1, retry_count + 1), from the given attempt on
reconnect_loop(c, attempt, retry_count) ==
    IF attempt > retry_count
    THEN {Raises(c, "ConnectionError")}
    ELSE UNION { IF r.err = "none"
                 THEN {Returns(Emit(r.c, "reconnected", attempt), NoOut)}
                 ELSE reconnect_loop(
                          Emit(Emit(r.c, "attempt_failed", attempt), "sleep_retry", 0),
                          attempt + 1, retry_count)
                 : r \in connect(disconnect(Emit(c, "attempt", attempt)), FALSE) }

reconnect(c, retry_count) ==
    reconnect_loop(Emit(c, "reconnect", 0), 1, retry_count)

\* ----------------------------------------------------------- send_command
RECURSIVE recv_loop(_, _)
\* while recv_ready(): recv(buffer_size); sleep(0.1)   -- k blocks are read
recv_loop(c, k) ==
    IF k = 0 THEN c
    ELSE recv_loop(Emit(Emit(c, "recv", c.shell), "sleep_poll", 0), k - 1)

\* variant of send_command without the is_connected check
send_command_unchecked(c) ==
    UNION {
      LET c1 == IF drop THEN [c EXCEPT !.live = @ \ {c.shell}] ELSE c
          c2 == Emit(c1, "send", c.shell)
          c3 == Emit(c2, "sleep_wait", 0)
      IN  IF c.shell \notin c1.live
          THEN {Raises(c2, "OSError")}
          ELSE { Returns([recv_loop(c3, c.pending + f) EXCEPT !.pending = l],
                         [stale |-> c.pending, fresh |-> f])
                   : f \in 0..MaxChunks, l \in 0..MaxLate }
      : drop \in BOOLEAN }

send_command(c) ==
    IF ~is_connected(c)
    THEN {Raises(c, "ConnectionError")}
    ELSE UNION {
           LET c1 == IF drop THEN [c EXCEPT !.live = @ \ {c.shell}] ELSE c
               c2 == Emit(c1, "send", c.shell)
               c3 == Emit(c2, "sleep_wait", 0)
           IN  IF c.shell \notin c1.live
               THEN {Raises(c2, "OSError")}
               ELSE { Returns([recv_loop(c3, c.pending + f) EXCEPT !.pending = l],
                              [stale |-> c.pending, fresh |-> f])
                        : f \in 0..MaxChunks, l \in 0..MaxLate }
           : drop \in BOOLEAN }

\* ---------------------------------------------------------------- run_cmd
RECURSIVE run_cmd_loop_swallow(_, _, _)
\* variant of the loop that goes on to the next attempt when reconnect raises
run_cmd_loop_swallow(c, attempt, attempts) ==
    IF attempt >= attempts
    THEN {Raises(c, "RuntimeError")}
    ELSE UNION { IF s.err = "none"
                 THEN {s}
                 ELSE UNION { run_cmd_loop_swallow(r.c, attempt + 1, attempts)
                              : r \in reconnect(Emit(s.c, "command_failed", attempt),
                                                DefaultRetryCount) }
                 : s \in send_command(c) }

RECURSIVE run_cmd_loop(_, _, _)
\* for attempt in range(attempts), from the given attempt on
run_cmd_loop(c, attempt, attempts) ==
    IF attempt >= attempts
    THEN {Raises(c, "RuntimeError")}
    ELSE UNION { IF s.err = "none"
                 THEN {s}
                 ELSE UNION { IF r.err = "none"
                              THEN run_cmd_loop(r.c, attempt + 1, attempts)
                              ELSE {r}
                              : r \in reconnect(Emit(s.c, "command_failed", attempt),
                                                DefaultRetryCount) }
                 : s \in send_command(c) }

\* variant of attempts: one first try and then retry_count retries
Attempts_first_try_and_retries(retry_count) == IF retry_count < 0 THEN retry_count ELSE retry_count + 1

\* attempts = 1 if not retry_count else retry_count
Attempts(retry_count) == IF retry_count = 0 THEN 1 ELSE retry_count

run_cmd(c, retry_count) == run_cmd_loop(c, 0, Attempts(retry_count))

\* ------------------------------------------------------------------ state
NoCall == [op |-> "init", arg |-> 0, pre_client |-> None, pre_shell |-> None,
           err |-> "none", out |-> NoOut]

\* the caller holds no result: the previous call, if any, has been dealt with
Idle == [NoCall EXCEPT !.op = "idle"]

\* calls are made one at a time, each after the result of the one before
Ready == last.op \in {"init", "idle"}

\* no send_command is being followed step by step
NoPoll ==
    /\ pc = "idle"
    /\ chan = <<>>
    /\ supply = 0
    /\ sends = 0
    /\ chunks = <<>>
    /\ acc = <<>>
    /\ ret = <<>>

Init ==
    /\ ssh_client = None
    /\ shell = None
    /\ nsess = 0
    /\ live = {}
    /\ pending = 0
    /\ iface = FALSE
    /\ log = <<>>
    /\ last = NoCall
    /\ output = <<>>
    /\ parsed = <<>>
    /\ NoPoll

\* the public call op(arg) ends with result r
Apply(op, arg, r) ==
    /\ ssh_client' = r.c.ssh_client
    /\ shell' = r.c.shell
    /\ nsess' = r.c.nsess
    /\ live' = r.c.live
    /\ pending' = r.c.pending
    /\ log' = r.c.log
    /\ last' = [op |-> op, arg |-> arg, pre_client |-> ssh_client,
                pre_shell |-> shell, err |-> r.err, out |-> r.out]

Connect ==
    /\ Ready
    /\ nsess + 1 <= MaxSessions
    /\ \E dp \in BOOLEAN : \E r \in connect(Conn, dp) :
           Apply("connect", IF dp THEN 1 ELSE 0, r)
    /\ UNCHANGED <<iface, output, parsed>>
    /\ UNCHANGED pollVars

Disconnect ==
    /\ Ready
    /\ Apply("disconnect", 0, Returns(disconnect(Conn), NoOut))
    /\ UNCHANGED <<iface, output, parsed>>
    /\ UNCHANGED pollVars

Reconnect ==
    /\ Ready
    /\ \E n \in -1..MaxRetry :
          /\ nsess + n <= MaxSessions
          /\ \E r \in reconnect(Conn, n) : Apply("reconnect", n, r)
    /\ UNCHANGED <<iface, output, parsed>>
    /\ UNCHANGED pollVars

SendCommand ==
    /\ Ready
    /\ \E r \in send_command(Conn) : Apply("send_command", 0, r)
    /\ UNCHANGED <<iface, output, parsed>>
    /\ UNCHANGED pollVars

\* ShellInterface.__init__: self._connect()
ShellInterfaceInit ==
    /\ Ready
    /\ ~iface
    /\ nsess + 1 <= MaxSessions
    /\ IF is_connected(Conn)
       THEN Apply("ShellInterface", 0, Returns(Conn, NoOut)) /\ iface' = TRUE
       ELSE \E r \in connect(Conn, FALSE) :
               Apply("ShellInterface", 0, r) /\ iface' = (r.err = "none")
    /\ UNCHANGED <<output, parsed>>
    /\ UNCHANGED pollVars

\* ShellInterface.__del__: self.connection.disconnect()
ShellInterfaceDel ==
    /\ Ready
    /\ iface
    /\ Apply("del", 0, Returns(disconnect(Conn), NoOut))
    /\ iface' = FALSE
    /\ UNCHANGED <<output, parsed>>
    /\ UNCHANGED pollVars

RunCmd ==
    /\ Ready
    /\ iface
    /\ \E n \in -1..MaxRunRetry :
          /\ nsess + DefaultRetryCount * Attempts(n) <= MaxSessions
          /\ \E r \in run_cmd(Conn, n) : Apply("run_cmd", n, r)
    /\ UNCHANGED <<iface, output, parsed>>
    /\ UNCHANGED pollVars

\* the remote host (or the network) ends a session the handles hold
RemoteDrop ==
    /\ \E s \in live : live' = live \ {s}
    /\ UNCHANGED <<ssh_client, shell, nsess, pending, iface, log, last, output, parsed>>
    /\ UNCHANGED pollVars

\* the caller takes the result or the exception of the last call
Return ==
    /\ ~Ready
    /\ last' = Idle
    /\ log' = <<>>
    /\ UNCHANGED <<ssh_client, shell, nsess, live, pending, iface, output, parsed>>
    /\ UNCHANGED pollVars

Next ==
    \/ Connect
    \/ Disconnect
    \/ Reconnect
    \/ SendCommand
    \/ ShellInterfaceInit
    \/ ShellInterfaceDel
    \/ RunCmd
    \/ RemoteDrop
    \/ Return

Spec == Init /\ [][Next]_vars

\* ================================================================ claims
\* is_connected of the current state
IsConnected == is_connected(Conn)

\* number of events of one kind in the log of the last call
Count(ev) == Cardinality({i \in DOMAIN log : log[i].ev = ev})

Max(a, b) == IF a >= b THEN a ELSE b

\* the handles were both set when the last call began
WasConnected == last.pre_client # None /\ last.pre_shell # None

\* C1: between public operations _ssh_client and _shell are both None or
\* both non-None.
C1_HandlesBothOrNeither == (ssh_client = None) <=> (shell = None)

\* C2: reconnect(retry_count=n) makes at most n disconnect-then-connect
\* attempts; when it raises, every one of exactly max(n, 0) attempts failed
\* and the error is ConnectionError; when it returns, the attempt that
\* succeeded is the last one made; for n <= 0 no attempt is made.
C2_ReconnectBounded ==
    last.op = "reconnect" =>
        /\ Count("attempt") <= Max(last.arg, 0)
        /\ Count("new_client") = Count("attempt")
        /\ Count("attempt") = Count("attempt_failed") + Count("reconnected")
        /\ last.err \in {"none", "ConnectionError"}
        /\ last.err = "ConnectionError" =>
              /\ Count("attempt") = Max(last.arg, 0)
              /\ Count("attempt_failed") = Count("attempt")
        /\ last.err = "none" =>
              /\ Count("reconnected") = 1
              /\ log[Len(log)].ev = "reconnected"
              /\ log[Len(log)].id = Count("attempt")
        /\ last.arg <= 0 => (Count("attempt") = 0 /\ last.err = "ConnectionError")

C2_Witness ==
    /\ last.op = "reconnect"
    /\ last.arg = 2
    /\ last.err = "ConnectionError"
    /\ Count("new_client") = 2

\* C3 as stated: every error that reaches the caller of connect, reconnect,
\* send_command or run_cmd is a ConnectionError.
C3_OnlyConnectionError ==
    last.op \in {"connect", "reconnect", "send_command", "run_cmd"} =>
        last.err \in {"none", "ConnectionError"}

\* C3 amended: connect and reconnect raise only ConnectionError; send_command
\* raises ConnectionError exactly when the connection is not active and lets
\* a failure of the channel through unchanged; run_cmd raises ConnectionError
\* or its own RuntimeError, never the failure of the channel.
C3_ErrorKinds ==
    /\ last.op \in {"connect", "reconnect", "ShellInterface"} =>
          last.err \in {"none", "ConnectionError"}
    /\ last.op = "send_command" =>
          /\ last.err \in {"none", "ConnectionError", "OSError"}
          /\ (last.err = "ConnectionError") <=> ~WasConnected
    /\ last.op = "run_cmd" =>
          last.err \in {"none", "ConnectionError", "RuntimeError"}

C3_Witness ==
    \/ last.op = "send_command" /\ last.err = "OSError" /\ Count("send") = 1
    \/ last.op = "run_cmd" /\ last.err = "RuntimeError" /\ Count("send") = 2

\* C4: run_cmd(retry_count=n), n >= 1: after a failed send and a successful
\* reconnect the command is sent again, and RuntimeError is raised only
\* after the command has been re-sent at least once.
C4_RetryResends ==
    (last.op = "run_cmd" /\ last.arg >= 1) =>
        /\ \A i \in DOMAIN log :
              log[i].ev = "reconnected" =>
                  \E j \in DOMAIN log : j > i /\ log[j].ev = "send"
        /\ last.err = "RuntimeError" => Count("send") >= 2

\* the last reconnect attempt the default retry count allows has failed
Exhausted(i) == log[i].ev = "attempt_failed" /\ log[i].id = DefaultRetryCount

\* C5: when a reconnect inside run_cmd fails all its attempts, run_cmd ends
\* at once with that ConnectionError: nothing is sent, no reconnect starts
\* and no attempt is made after it, and RuntimeError is not raised.
C5_ExhaustionFatal ==
    last.op = "run_cmd" =>
        /\ \A i \in DOMAIN log :
              Exhausted(i) =>
                  /\ last.err = "ConnectionError"
                  /\ i = Len(log) - 1
                  /\ log[Len(log)].ev = "sleep_retry"
        /\ last.err = "ConnectionError" => \E i \in DOMAIN log : Exhausted(i)

C5_Witness ==
    /\ last.op = "run_cmd"
    /\ last.arg = 2
    /\ last.err = "ConnectionError"
    /\ Count("send") = 1
    /\ Count("reconnect") = 1

\* C6: is_connected is True only if the session behind the shell is alive.
C6_ConnectedMeansAlive == IsConnected => shell \in live

\* C7: is_connected is True exactly when both handles are set; it is False
\* before any connect, after disconnect, and after a connect on a fresh
\* connection that failed before the shell channel was opened.
C7_ReportMatchesHandles ==
    /\ IsConnected <=> (ssh_client # None /\ shell # None)
    /\ (ssh_client = None \/ shell = None) => ~IsConnected
    /\ last.op = "init" => ~IsConnected
    /\ last.op \in {"disconnect", "del"} => ~IsConnected
    /\ (/\ last.op \in {"connect", "ShellInterface"}
        /\ last.err # "none"
        /\ last.pre_shell = None
        /\ Count("sleep_connect") = 0) => ~IsConnected

C7_Witness ==
    /\ last.op = "connect"
    /\ last.err = "ConnectionError"
    /\ ssh_client # None
    /\ shell = None
    /\ ~IsConnected

\* C9: disconnect, from any state, leaves both handles None and is_connected
\* False; it closes the shell before the client, each handle that was set
\* exactly once; a disconnect right after a disconnect closes nothing and
\* changes nothing.
C9_DisconnectFromAnyState ==
    last.op = "disconnect" =>
        /\ ssh_client = None
        /\ shell = None
        /\ ~IsConnected
        /\ log = (IF last.pre_shell # None
                  THEN <<[ev |-> "shell_close", id |-> last.pre_shell]>>
                  ELSE <<>>)
                 \o (IF last.pre_client # None
                     THEN <<[ev |-> "client_close", id |-> last.pre_client]>>
                     ELSE <<>>)
        /\ disconnect(Conn) = Conn

C9_Witness ==
    /\ last.op = "disconnect"
    /\ last.pre_client # None
    /\ last.pre_shell # None
    /\ Len(log) = 2

\* C10: when is_connected is False, send_command raises ConnectionError
\* before any call on a channel and leaves both handles as they were.
C10_InactiveSendRejected ==
    (last.op = "send_command" /\ ~WasConnected) =>
        /\ last.err = "ConnectionError"
        /\ log = <<>>
        /\ ssh_client = last.pre_client
        /\ shell = last.pre_shell

C10_Witness ==
    /\ last.op = "send_command"
    /\ last.pre_client # None
    /\ last.pre_shell = None
    /\ last.err = "ConnectionError"


\* C11: whenever connect raises ConnectionError, whichever step failed,
\* is_connected is False afterwards.
C11_FailedConnectNotConnected ==
    (last.op = "connect" /\ last.err = "ConnectionError") => ~IsConnected

\* index of the last event of one kind in the log, 0 if there is none
LastIndex(ev) ==
    LET at == {i \in DOMAIN log : log[i].ev = ev}
    IN  IF at = {} THEN 0 ELSE CHOOSE i \in at : \A j \in at : j <= i

\* what holds of every run_cmd whatever its retry_count: the sends are at most
\* max(1, n) for n >= 0 and none for n < 0; a send that succeeds ends the
\* call; every failed send is followed by a reconnect
RunCmdSends ==
    /\ last.arg >= 0 => Count("command_failed") + (IF last.err = "none" THEN 1 ELSE 0)
                            <= Max(1, last.arg)
    /\ last.arg < 0 => (log = <<>> /\ last.err = "RuntimeError")
    /\ last.err = "none" =>
          /\ log[Len(log)].ev \in {"sleep_wait", "sleep_poll"}
          /\ LastIndex("send") > LastIndex("command_failed")
          /\ LastIndex("send") > LastIndex("reconnect")
    /\ Count("reconnect") = Count("command_failed")
    /\ \A i \in DOMAIN log :
          log[i].ev = "command_failed" => (i < Len(log) /\ log[i + 1].ev = "reconnect")

\* after RuntimeError: max(1, n) sends failed, each followed by a reconnect
\* that succeeded; the connection is connected, on a session on which the
\* command was never sent
RunCmdGaveUp ==
    /\ Count("command_failed") = Max(1, last.arg)
    /\ Count("reconnected") = Count("command_failed")
    /\ IsConnected
    /\ ssh_client = shell
    /\ log[LastIndex("new_client")].id = shell
    /\ \A i \in DOMAIN log : log[i].ev = "send" => log[i].id # shell

\* C12 as stated: the accounting above, and RunCmdGaveUp whenever run_cmd
\* raises RuntimeError.
C12_RunCmdAccounting ==
    last.op = "run_cmd" =>
        /\ RunCmdSends
        /\ last.err = "RuntimeError" => RunCmdGaveUp

\* C12 amended: RunCmdGaveUp holds when RuntimeError is raised with
\* retry_count >= 0; with retry_count < 0 RuntimeError is raised at once,
\* nothing is sent, no reconnect is made and the handles are left as they were.
C12_RunCmdAccountingNonNegative ==
    last.op = "run_cmd" =>
        /\ RunCmdSends
        /\ (last.err = "RuntimeError" /\ last.arg >= 0) => RunCmdGaveUp
        /\ last.arg < 0 => (ssh_client = last.pre_client /\ shell = last.pre_shell)

C12_Witness ==
    /\ last.op = "run_cmd"
    /\ last.arg = 2
    /\ last.err = "RuntimeError"
    /\ Count("send") = 2
    /\ Count("reconnected") = 2

\* client objects held before the event at j: the one held when the call
\* began and those created by the call so far
PriorClients(j) ==
    ({last.pre_client} \cup {log[i].id : i \in {k \in 1..(j - 1) : log[k].ev = "new_client"}})
        \ {None}

Closed(ev, id, j) == \E i \in 1..(j - 1) : log[i] = [ev |-> ev, id |-> id]

\* C13: in every reconnect attempt the previous shell and client are closed,
\* and the handles cleared, before the new client is created; the retry sleep
\* follows every failed attempt, the last one included; when reconnect
\* returns, is_connected is True and both handles are the session opened by
\* the last attempt.
C13_ReconnectOrder ==
    last.op = "reconnect" =>
        /\ \A j \in DOMAIN log :
              log[j].ev = "new_client" =>
                  /\ \A id \in PriorClients(j) : Closed("client_close", id, j)
                  /\ last.pre_shell # None => Closed("shell_close", last.pre_shell, j)
                  /\ log[j - 1].ev \in {"attempt", "shell_close", "client_close"}
        /\ disconnect(Conn).ssh_client = None /\ disconnect(Conn).shell = None
        /\ \A i \in DOMAIN log :
              log[i].ev = "attempt_failed" =>
                  (i < Len(log) /\ log[i + 1].ev = "sleep_retry")
        /\ Count("sleep_retry") = Count("attempt_failed")
        /\ (last.err = "ConnectionError" /\ last.arg >= 1) =>
              log[Len(log)].ev = "sleep_retry"
        /\ last.err = "none" =>
              /\ IsConnected
              /\ ssh_client = shell
              /\ log[LastIndex("new_client")].id = shell
              /\ LastIndex("new_client") > LastIndex("attempt")
              /\ log[LastIndex("attempt")].id = log[Len(log)].id

C13_Witness ==
    /\ last.op = "reconnect"
    /\ last.arg = 2
    /\ last.err = "none"
    /\ last.pre_shell # None
    /\ Count("attempt_failed") = 1
    /\ Count("client_close") = 2

\* C14: every block send_command returns was emitted after the command was
\* sent on the current session; nothing left unread from the banner or from
\* an earlier command is part of the output.
C14_OutputIsolation ==
    (last.op \in {"send_command", "run_cmd"} /\ last.err = "none") => last.out.stale = 0

\* ------------------------------------------------------- parse_cmd_output
\* A string is a sequence of characters.  Alphabet: two printable characters,
\* a blank, and three of the line boundaries of str.splitlines().
Alphabet == {"a", "b", " ", "\n", "\r", "\f"}

Strings == UNION { [1..n -> Alphabet] : n \in 0..MaxLen }

\* the characters at which str.splitlines() ends a line
IsLineBreak(ch) == ch \in {"\n", "\r", "\f"}

\* the characters str.strip() removes (str.isspace())
IsSpace(ch) == ch \in {" ", "\n", "\r", "\f"}

\* first index >= i that holds a line boundary, Len(s) + 1 if there is none
RECURSIVE LineEnd(_, _)
LineEnd(s, i) ==
    IF i > Len(s) \/ IsLineBreak(s[i]) THEN i ELSE LineEnd(s, i + 1)

RECURSIVE splitlines_from(_, _)
\* str.splitlines(): "\r\n" is one boundary, a final boundary opens no line
splitlines_from(s, i) ==
    IF i > Len(s) THEN <<>>
    ELSE LET j == LineEnd(s, i)
             next == IF j > Len(s) THEN j
                     ELSE IF s[j] = "\r" /\ j + 1 <= Len(s) /\ s[j + 1] = "\n"
                          THEN j + 2
                          ELSE j + 1
         IN  <<SubSeq(s, i, j - 1)>> \o splitlines_from(s, next)

RECURSIVE split_newline_from(_, _)
\* variant of splitlines that ends a line at "\n" alone
split_newline_from(s, i) ==
    IF i > Len(s) THEN <<>>
    ELSE LET j == CHOOSE x \in i..(Len(s) + 1) :
                      /\ x > Len(s) \/ s[x] = "\n"
                      /\ \A y \in i..(x - 1) : s[y] # "\n"
         IN  <<SubSeq(s, i, j - 1)>> \o split_newline_from(s, j + 1)

split_newline(s) == split_newline_from(s, 1)

splitlines(s) == splitlines_from(s, 1)

RECURSIVE lstrip(_)
lstrip(s) == IF s # <<>> /\ IsSpace(Head(s)) THEN lstrip(Tail(s)) ELSE s

RECURSIVE rstrip(_)
rstrip(s) ==
    IF s # <<>> /\ IsSpace(s[Len(s)]) THEN rstrip(SubSeq(s, 1, Len(s) - 1)) ELSE s

\* str.strip()
strip(s) == rstrip(lstrip(s))

\* [line.strip() for line in output.splitlines() if line.strip()]
parse_cmd_output(s) ==
    LET lines == splitlines(s)
        kept == SelectSeq(lines, LAMBDA line : strip(line) # <<>>)
    IN  [k \in 1..Len(kept) |-> strip(kept[k])]

InitParse ==
    /\ Init!1 /\ Init!2 /\ Init!3 /\ Init!4 /\ Init!5 /\ Init!6 /\ Init!7 /\ Init!8
    /\ output \in Strings
    /\ parsed = <<>>
    /\ NoPoll

ParseCmdOutput ==
    /\ last.op = "init"
    /\ parsed' = parse_cmd_output(output)
    /\ last' = [NoCall EXCEPT !.op = "parse_cmd_output"]
    /\ UNCHANGED <<ssh_client, shell, nsess, live, pending, iface, log, output>>
    /\ UNCHANGED pollVars

NextParse == ParseCmdOutput

SpecParse == InitParse /\ [][NextParse]_vars

\* ------------------------------------------------------------ C8 (parse)
\* no line boundary at the positions i..j of s
SameLine(s, i, j) == \A m \in i..j : ~IsLineBreak(s[m])

\* positions of the first non-blank character of each non-blank line
LineStarts(s) ==
    { i \in 1..Len(s) :
        /\ ~IsSpace(s[i])
        /\ \A j \in 1..(i - 1) : SameLine(s, j, i) => IsSpace(s[j]) }

\* position of the last non-blank character of the line that holds i
LineLast(s, i) ==
    CHOOSE j \in i..Len(s) :
        /\ ~IsSpace(s[j]) /\ SameLine(s, i, j)
        /\ \A m \in (j + 1)..Len(s) : ~(~IsSpace(s[m]) /\ SameLine(s, i, m))

RECURSIVE LinesAt(_, _)
LinesAt(s, starts) ==
    IF starts = {} THEN <<>>
    ELSE LET i == CHOOSE x \in starts : \A y \in starts : x <= y
         IN  <<SubSeq(s, i, LineLast(s, i))>> \o LinesAt(s, starts \ {i})

\* the non-blank lines of s, in order, without surrounding whitespace
NonBlankLines(s) == LinesAt(s, LineStarts(s))

RECURSIVE JoinNewline(_)
JoinNewline(ls) ==
    IF ls = <<>> THEN <<>>
    ELSE IF Len(ls) = 1 THEN ls[1]
    ELSE ls[1] \o <<"\n">> \o JoinNewline(Tail(ls))

\* C8: parse_cmd_output returns exactly the non-blank lines of its input in
\* order, each without surrounding whitespace; no element is empty or starts
\* or ends with whitespace; parsing the newline-join of the result gives the
\* result again.
C8_ParseNonBlankLines ==
    last.op = "parse_cmd_output" =>
        /\ parsed = NonBlankLines(output)
        /\ \A k \in DOMAIN parsed :
              /\ parsed[k] # <<>>
              /\ ~IsSpace(parsed[k][1])
              /\ ~IsSpace(parsed[k][Len(parsed[k])])
        /\ parse_cmd_output(JoinNewline(parsed)) = parsed

C8_Witness ==
    /\ last.op = "parse_cmd_output"
    /\ Len(parsed) = 2
    /\ Len(splitlines(output)) = 3
    /\ \E k \in DOMAIN output : output[k] = " "

\* ------------------------------------------ send_command, one step at a time
\* Bytes on the channel: a letter, a blank, and the lead byte "L" and the
\* continuation byte "C" of one two-byte character, written "U" once decoded.
Bytes == {"a", " ", "L", "C"}

RECURSIVE decode(_)
\* bytes.decode(errors='ignore'): a lead byte without its continuation byte,
\* or a continuation byte without its lead byte, is left out
decode(bs) ==
    IF bs = <<>> THEN <<>>
    ELSE IF Head(bs) = "L"
         THEN IF Len(bs) >= 2 /\ bs[2] = "C"
              THEN <<"U">> \o decode(SubSeq(bs, 3, Len(bs)))
              ELSE decode(Tail(bs))
         ELSE IF Head(bs) = "C"
              THEN decode(Tail(bs))
              ELSE <<Head(bs)>> \o decode(Tail(bs))

\* Channel.recv(nbytes): what is buffered, nbytes at most
recv(buf, nbytes) == SubSeq(buf, 1, IF Len(buf) < nbytes THEN Len(buf) ELSE nbytes)

\* a connected session, send_command about to be called
InitPoll ==
    /\ ssh_client = 1
    /\ shell = 1
    /\ nsess = 1
    /\ live = {1}
    /\ pending = 0
    /\ iface = FALSE
    /\ log = <<>>
    /\ last = Idle
    /\ output = <<>>
    /\ parsed = <<>>
    /\ pc = "call"
    /\ chan = <<>>
    /\ supply = MaxBytes
    /\ sends = 0
    /\ chunks = <<>>
    /\ acc = <<>>
    /\ ret = <<>>

\* is_connected check, self._shell.send(command + '\n'), sleep, output = ''
PollSend ==
    /\ pc = "call"
    /\ is_connected(Conn)
    /\ sends' = sends + 1
    /\ IF shell \in live
       THEN pc' = "poll" /\ acc' = <<>>
       ELSE pc' = "raised" /\ acc' = acc
    /\ UNCHANGED <<chan, supply, chunks, ret>>
    /\ UNCHANGED <<ssh_client, shell, nsess, live, pending, iface, log, last, output, parsed>>

\* variant of the loop test that reads one chunk at most
PollExit_after_first_chunk ==
    /\ pc = "poll"
    /\ chan = <<>> \/ chunks # <<>>
    /\ ret' = strip(acc)
    /\ pc' = "done"
    /\ UNCHANGED <<chan, supply, sends, chunks, acc>>
    /\ UNCHANGED <<ssh_client, shell, nsess, live, pending, iface, log, last, output, parsed>>

\* recv_ready() is True: output += recv(buffer_size).decode(errors='ignore'); sleep(0.1)
PollRecv ==
    /\ pc = "poll"
    /\ chan # <<>>
    /\ LET chunk == recv(chan, BufferSize)
       IN  /\ chunks' = Append(chunks, chunk)
           /\ acc' = acc \o decode(chunk)
           /\ chan' = SubSeq(chan, Len(chunk) + 1, Len(chan))
    /\ UNCHANGED <<pc, supply, sends, ret>>
    /\ UNCHANGED <<ssh_client, shell, nsess, live, pending, iface, log, last, output, parsed>>

\* recv_ready() is False: return output.strip()
PollExit ==
    /\ pc = "poll"
    /\ chan = <<>>
    /\ ret' = strip(acc)
    /\ pc' = "done"
    /\ UNCHANGED <<chan, supply, sends, chunks, acc>>
    /\ UNCHANGED <<ssh_client, shell, nsess, live, pending, iface, log, last, output, parsed>>

\* the remote writes one more byte to the channel of a session that is up
RemoteEmit ==
    /\ pc \in {"call", "poll"}
    /\ shell \in live
    /\ supply > 0
    /\ \E b \in Bytes : chan' = Append(chan, b)
    /\ supply' = supply - 1
    /\ UNCHANGED <<pc, sends, chunks, acc, ret>>
    /\ UNCHANGED <<ssh_client, shell, nsess, live, pending, iface, log, last, output, parsed>>

\* the remote ends the session while send_command runs
PollRemoteDrop ==
    /\ pc \in {"call", "poll"}
    /\ RemoteDrop

NextPoll ==
    \/ PollSend
    \/ PollRecv
    \/ PollExit
    \/ RemoteEmit
    \/ PollRemoteDrop

\* the one thread of the program keeps running: every sleep returns
SpecPoll ==
    /\ InitPoll
    /\ [][NextPoll]_vars
    /\ WF_vars(PollSend)
    /\ WF_vars(PollRecv)
    /\ WF_vars(PollExit)

RECURSIVE DecodeAll(_)
\* the chunks, each decoded on its own, one after the other
DecodeAll(cs) == IF cs = <<>> THEN <<>> ELSE decode(Head(cs)) \o DecodeAll(Tail(cs))

\* a poll loop that has ended sent the command once and returns the decoded
\* chunks it read, in order, without surrounding whitespace
PollResult ==
    pc = "done" => (sends = 1 /\ acc = DecodeAll(chunks) /\ ret = strip(DecodeAll(chunks)))

\* a chunk is read only at a poll that finds data ready, and is the head of
\* what is buffered
PollReadsWhenReady ==
    chunks' # chunks =>
        /\ pc = "poll"
        /\ chan # <<>>
        /\ chunks' = Append(chunks, recv(chan, BufferSize))
        /\ chunks'[Len(chunks')] # <<>>

\* the loop is left only at a poll that finds no data ready
PollLeavesWhenIdle == (pc = "poll" /\ pc' = "done") => chan = <<>>

\* C15: on a connected session send_command sends the command once, reads a
\* chunk only while the channel has data ready, and returns the chunks it
\* read, in order, stripped; it ends when the remote stops having data ready
\* (here: after MaxBytes bytes or the end of the session), and it never ends
\* at a poll that finds data ready.
C15_PollLoop ==
    /\ []PollResult
    /\ [][PollReadsWhenReady]_vars
    /\ [][PollLeavesWhenIdle]_vars
    /\ [](pc = "poll" => chan # <<>>) => [](pc # "done")
    /\ <>(pc \in {"done", "raised"})

C15_Witness ==
    /\ pc = "done"
    /\ sends = 1
    /\ Len(chunks) = 2
    /\ supply = 0
    /\ ret # acc
    /\ ret # <<>>

====
